---- MODULE Spec2Model ----
(***************************************************************************)
(* g.html2man: HTML man-page source -> groff.                              *)
(*                                                                         *)
(* Three specifications over one set of variables:                         *)
(*   SpecFix  - the tree filter fix() applied to bounded contents          *)
(*   SpecNorm - the whitespace normalizer applied to bounded texts         *)
(*   Spec     - the control flow of main()                                 *)
(***************************************************************************)
EXTENDS Integers, Sequences, FiniteSets, TLC

VARIABLES
    content, fixed1, fixed2, fixpc,     \* SpecFix: argument of fix, fix of it, fix of that
    text, norm1, norm2, normpc,         \* SpecNorm: a text, normalized once, twice
    pc,             \* Spec: position in main()
    lines,          \* the lines of the input file
    nLine,          \* lines taken from the input file so far (enumerate's next index)
    fedCalls,       \* the arguments of the calls p.feed(line), in call order
    data,           \* p.data, the nodes parsed so far
    perr,           \* the HTMLParseError raised, if any
    stderr,         \* what was written to the error stream
    exitStatus,     \* the process's exit status, -1 while running
    inf, infOpens,  \* the input file object and how often it was opened
    outf, outfOpens,\* the output file object and how often it was opened
    written,        \* the arguments of the calls outf.write(s)
    sf,             \* sf.getvalue(): what the formatter emitted
    sOut,           \* the string s
    ppArg,          \* the argument of f.pp
    failure,        \* the stage that raised, "none" if none did
    stages          \* the stages completed

fixvars == <<content, fixed1, fixed2, fixpc>>

normvars == <<text, norm1, norm2, normpc>>

mainvars == <<pc, lines, nLine, fedCalls, data, perr, stderr, exitStatus, inf, infOpens,
              outf, outfOpens, written, sf, sOut, ppArg, failure, stages>>

vars == <<fixvars, normvars, mainvars>>

(***************************************************************************)
(* Python values.  fix() dispatches on the dynamic type of its argument,   *)
(* so every value carries its type in the field kind:                      *)
(*   tuple (tag, attrs, body)  - an element                                *)
(*   list                      - a list of nodes                           *)
(*   str                       - a text node                               *)
(*   None                                                                  *)
(***************************************************************************)
None == [kind |-> "None"]

Str(t) == [kind |-> "str", s |-> t]

List(xs) == [kind |-> "list", items |-> xs]

Tuple(tag, attrs, body) == [kind |-> "tuple", tag |-> tag, attrs |-> attrs, body |-> body]

(* ('class', 'toc') in attrs : membership by equality of the whole pair *)
HasTocClass(attrs) == \E i \in 1..Len(attrs) : attrs[i] = <<"class", "toc">>

(* tag == 'div' and ('class', 'toc') in attrs *)
IsToc_anytag(tag, attrs) == HasTocClass(attrs)

IsToc(tag, attrs) == tag = "div" /\ HasTocClass(attrs)

(* A filter that deletes from the list it is iterating over: the element   *)
(* following each deleted one is skipped.                                  *)
RECURSIVE fix_skip(_)
RECURSIVE fix_skip_items(_, _)
fix_skip_items(items, i) ==
    IF i > Len(items) THEN <<>>
    ELSE LET f == fix_skip(items[i])
         IN  IF f = None
             THEN (IF i + 1 <= Len(items) THEN <<items[i + 1]>> ELSE <<>>)
                  \o fix_skip_items(items, i + 2)
             ELSE <<f>> \o fix_skip_items(items, i + 1)

fix_skip(c) ==
    IF c.kind = "tuple"
    THEN IF IsToc(c.tag, c.attrs) THEN None
         ELSE Tuple(c.tag, c.attrs, fix_skip(c.body))
    ELSE IF c.kind = "list"
    THEN List(fix_skip_items(c.items, 1))
    ELSE c

RECURSIVE fix(_)
fix(c) ==
    IF c.kind = "tuple"
    THEN IF IsToc(c.tag, c.attrs) THEN None
         ELSE Tuple(c.tag, c.attrs, fix(c.body))
    ELSE IF c.kind = "list"
    THEN LET fixeds == [i \in 1..Len(c.items) |-> fix(c.items[i])]
         IN  List(SelectSeq(fixeds, LAMBDA fixed : fixed # None))
    ELSE c

(***************************************************************************)
(* Bounded contents: every forest of at most MaxNodes nodes over a few     *)
(* texts and element heads, and every single node of that size.            *)
(***************************************************************************)
MaxNodes == 4

Texts == {"A"}

Heads == { <<"div", << <<"id", "x">>, <<"class", "toc">> >> >>,
           <<"p",   << <<"class", "toc">> >> >>,
           <<"div", << <<"class", "nav">>, <<"id", "toc">> >> >> }

NoError == [lineno |-> 0, offset |-> 0]

(* main() not running: the pure-function specifications leave it here *)
MainIdle ==
    /\ pc = "idle" /\ lines = <<>> /\ nLine = 0 /\ fedCalls = <<>> /\ data = <<>>
    /\ perr = NoError /\ stderr = <<>> /\ exitStatus = -1
    /\ inf = "unopened" /\ infOpens = 0 /\ outf = "unopened" /\ outfOpens = 0
    /\ written = <<>> /\ sf = <<>> /\ sOut = <<>> /\ ppArg = None
    /\ failure = "none" /\ stages = {}

(* the nodes of exactly j nodes, given tbl[i + 1] = the forests of i nodes *)
NodesOfSize(tbl, j) ==
    (IF j = 1 THEN {Str(t) : t \in Texts} ELSE {}) \cup
    {Tuple(h[1], h[2], List(b)) : h \in Heads, b \in tbl[j]}

(* <<forests of 0 nodes, ..., forests of k nodes>> *)
RECURSIVE ForestTable(_)
ForestTable(k) ==
    IF k = 0 THEN << {<<>>} >>
    ELSE LET tbl == ForestTable(k - 1)
         IN  Append(tbl, UNION {{<<nd>> \o rest : nd \in NodesOfSize(tbl, j),
                                                 rest \in tbl[k - j + 1]} : j \in 1..k})

(* the contents of at most m nodes: lists of nodes, single nodes, None *)
Contents(m) ==
    LET tbl == ForestTable(m)
    IN  {List(f) : f \in UNION {tbl[k + 1] : k \in 0..m}} \cup
        UNION {NodesOfSize(tbl, k) : k \in 1..m} \cup {None}

InitFix ==
    /\ MainIdle
    /\ text = <<>> /\ norm1 = <<>> /\ norm2 = <<>> /\ normpc = "idle"
    /\ content \in Contents(MaxNodes)
    /\ fixed1 = None
    /\ fixed2 = None
    /\ fixpc = "input"

(* fix(p.data) *)
ApplyFix ==
    /\ fixpc = "input"
    /\ fixed1' = fix(content)
    /\ fixpc' = "fixed"
    /\ UNCHANGED <<content, fixed2, normvars, mainvars>>

(* fix applied to its own result *)
ApplyFixAgain ==
    /\ fixpc = "fixed"
    /\ fixed2' = fix(fixed1)
    /\ fixpc' = "refixed"
    /\ UNCHANGED <<content, fixed1, normvars, mainvars>>

NextFix == ApplyFix \/ ApplyFixAgain

SpecFix == InitFix /\ [][NextFix]_vars

(***************************************************************************)
(* The nodes of a content in document order, each with its depth, its      *)
(* label and whether it is, or lies inside, a table-of-contents div.  A    *)
(* None left inside a list shows up as an entry of kind "None".            *)
(***************************************************************************)
Entry(d, c, dead) ==
    [depth |-> d, kind |-> c.kind,
     tag   |-> IF c.kind = "tuple" THEN c.tag ELSE "",
     attrs |-> IF c.kind = "tuple" THEN c.attrs ELSE <<>>,
     text  |-> IF c.kind = "str" THEN c.s ELSE "",
     inToc |-> dead]

RECURSIVE Flat(_, _, _)
RECURSIVE FlatItems(_, _, _, _)
FlatItems(items, i, d, dead) ==
    IF i > Len(items) THEN <<>>
    ELSE Flat(items[i], d, dead) \o FlatItems(items, i + 1, d, dead)

Flat(c, d, dead) ==
    IF c.kind = "list" THEN FlatItems(c.items, 1, d, dead)
    ELSE IF c.kind = "tuple"
    THEN LET dead2 == dead \/ (c.tag = "div" /\ <<"class", "toc">> \in {c.attrs[i] : i \in 1..Len(c.attrs)})
         IN  <<Entry(d, c, dead2)>> \o Flat(c.body, d + 1, dead2)
    ELSE <<Entry(d, c, dead)>>

Survivors(c) == SelectSeq(Flat(c, 0, FALSE), LAMBDA e : ~e.inToc)

(* C1: for a Document (a list of nodes), fix keeps exactly the nodes that  *)
(* are not, and do not lie inside, a div carrying the pair (class, toc):   *)
(* the kept nodes have the same tag, attributes, text, depth and order,    *)
(* nothing else appears, and no None is left in any list.                  *)
C1_FilterSelectivity ==
    (fixpc # "input" /\ content.kind = "list")
        => /\ fixed1.kind = "list"
           /\ Flat(fixed1, 0, FALSE) = Survivors(content)

(* a document with a nested toc div, a look-alike that must be kept, and   *)
(* a sibling after the dropped subtree                                     *)
C1_Witness ==
    /\ fixpc = "fixed"
    /\ content.kind = "list"
    /\ Len(content.items) = 2
    /\ Len(Survivors(content)) = 2
    /\ Len(Flat(content, 0, FALSE)) = 4
    /\ \E i \in 1..4 : Flat(content, 0, FALSE)[i].inToc /\ Flat(content, 0, FALSE)[i].depth = 1
                        /\ Flat(content, 0, FALSE)[i].kind = "tuple"
    /\ \E i \in 1..2 : Survivors(content)[i].tag = "p"

(* C2: fix is idempotent on every content, a table-of-contents div itself  *)
(* included: filtering the filtered content changes nothing.               *)
C2_FilterIdempotent ==
    fixpc = "refixed" => fixed2 = fixed1

(* a document whose filtering removed something at depth, filtered twice   *)
C2_Witness ==
    /\ fixpc = "refixed"
    /\ content.kind = "list"
    /\ fixed1 # content
    /\ fixed1.items # <<>>
    /\ \E i \in 1..Len(Flat(content, 0, FALSE)) :
          LET e == Flat(content, 0, FALSE)[i]
          IN  e.depth >= 1 /\ e.kind = "tuple" /\ e.tag = "div" /\ e.inToc

(* the content is itself a toc div: fix gives None, and again None *)
C2_WitnessTop ==
    /\ fixpc = "refixed"
    /\ content.kind = "tuple"
    /\ fixed1 = None

(***************************************************************************)
(* Strip excess whitespace.  A text is a sequence of characters.           *)
(*   blank_re = re.compile("[ \t\n]*\n([ \t]*\n)*")                        *)
(*   s = blank_re.sub('\n', s)                                             *)
(*   s = s.lstrip()                                                        *)
(***************************************************************************)
ReClass == {" ", "\t", "\n"}            \* [ \t\n]

ReBlank == {" ", "\t"}                  \* [ \t]

VT == ""                            \* the vertical tab, \x0b

(* what str.lstrip() removes: string.whitespace, '\t\n\x0b\x0c\r ' *)
Whitespace == {" ", "\t", "\n", VT, "\f", "\r"}

(* number of consecutive characters of class cls in s from position i *)
RECURSIVE RunLen(_, _, _)
RunLen(s, i, cls) ==
    IF i <= Len(s) /\ s[i] \in cls THEN 1 + RunLen(s, i + 1, cls) ELSE 0

(* ([ \t]*\n)* from position pos, greedy: the position after the last     *)
(* iteration that matched                                                  *)
RECURSIVE GroupLoop(_, _)
GroupLoop(s, pos) ==
    LET m == RunLen(s, pos, ReBlank)
    IN  IF pos + m <= Len(s) /\ s[pos + m] = "\n"
        THEN GroupLoop(s, pos + m + 1)
        ELSE pos

(* [ \t\n]* has taken k characters from i; the literal \n must follow,     *)
(* otherwise the star gives one character back.  0: no match at i.         *)
RECURSIVE Backtrack(_, _, _)
Backtrack(s, i, k) ==
    IF i + k <= Len(s) /\ s[i + k] = "\n"
    THEN GroupLoop(s, i + k + 1)
    ELSE IF k = 0 THEN 0 ELSE Backtrack(s, i, k - 1)

(* s.replace("\n\n", "\n"): only a pair of adjacent newlines matches *)
MatchEnd_pair(s, i) ==
    IF i + 1 <= Len(s) /\ s[i] = "\n" /\ s[i + 1] = "\n" THEN i + 2 ELSE 0

(* the match also swallows the spaces and tabs after its last newline *)
MatchEnd_indent(s, i) ==
    LET e == Backtrack(s, i, RunLen(s, i, ReClass))
    IN  IF e = 0 THEN 0 ELSE e + RunLen(s, e, ReBlank)

(* blank_re.match at position i: the position after the match, 0 if none *)
MatchEnd(s, i) == Backtrack(s, i, RunLen(s, i, ReClass))

(* blank_re.sub('\n', s): leftmost non-overlapping matches, scanning from  *)
(* pos; every match is at least one character long                         *)
RECURSIVE SubFrom(_, _)
SubFrom(s, pos) ==
    IF pos > Len(s) THEN <<>>
    ELSE LET e == MatchEnd(s, pos)
         IN  IF e # 0 THEN <<"\n">> \o SubFrom(s, e)
             ELSE <<s[pos]>> \o SubFrom(s, pos + 1)

BlankReSub(s) == SubFrom(s, 1)

(* no lstrip at all *)
lstrip_none(s) == s

(* s.lstrip() *)
lstrip(s) == SubSeq(s, 1 + RunLen(s, 1, Whitespace), Len(s))

Normalize(s) == lstrip(BlankReSub(s))

(***************************************************************************)
(* Bounded texts: every string of at most MaxLen characters over blanks,   *)
(* a newline, the three whitespace characters outside the pattern's        *)
(* classes, and two printing characters.                                   *)
(***************************************************************************)
MaxLen == 5

Alphabet == {" ", "\t", "\n", VT, "\f", "\r", "x", "y"}

Strings(m) == UNION {[1..k -> Alphabet] : k \in 0..m}

InitNorm ==
    /\ MainIdle
    /\ content = None /\ fixed1 = None /\ fixed2 = None /\ fixpc = "idle"
    /\ text \in Strings(MaxLen)
    /\ norm1 = <<>>
    /\ norm2 = <<>>
    /\ normpc = "input"

StripExcessWhitespace ==
    /\ normpc = "input"
    /\ norm1' = Normalize(text)
    /\ normpc' = "normalized"
    /\ UNCHANGED <<text, norm2, fixvars, mainvars>>

StripExcessWhitespaceAgain ==
    /\ normpc = "normalized"
    /\ norm2' = Normalize(norm1)
    /\ normpc' = "renormalized"
    /\ UNCHANGED <<text, norm1, fixvars, mainvars>>

NextNorm == StripExcessWhitespace \/ StripExcessWhitespaceAgain

SpecNorm == InitNorm /\ [][NextNorm]_vars

(***************************************************************************)
(* Lines of a text, for stating the normalizer's properties.               *)
(***************************************************************************)
(* the pieces between newlines; the last piece is what follows the last    *)
(* newline (empty when the text ends with one)                             *)
RECURSIVE Split(_)
Split(s) ==
    IF \A i \in 1..Len(s) : s[i] # "\n" THEN <<s>>
    ELSE LET n == CHOOSE i \in 1..Len(s) : s[i] = "\n" /\ \A j \in 1..(i - 1) : s[j] # "\n"
         IN  <<SubSeq(s, 1, n - 1)>> \o Split(SubSeq(s, n + 1, Len(s)))

(* the lines: a final newline ends the last line, it starts no new one *)
Lines(s) ==
    LET p == Split(s)
    IN  IF p[Len(p)] = <<>> THEN SubSeq(p, 1, Len(p) - 1) ELSE p

SpaceChars == {" ", "\t", "\n", VT, "\f", "\r"}

IsBlankLine(l) == \A i \in 1..Len(l) : l[i] \in {" ", "\t"}

HasInk(l) == \E i \in 1..Len(l) : l[i] \notin SpaceChars

InkLines(s) == SelectSeq(Split(s), HasInk)

(* C6: the normalizer is idempotent: normalizing a normalized text         *)
(* changes nothing.                                                        *)
C6_NormalizeIdempotent ==
    normpc = "renormalized" => norm2 = norm1

(* a text with a leading blank line, trailing blanks and a run of blank    *)
(* lines, all of which the first pass changed                              *)
C6_Witness ==
    /\ normpc = "renormalized"
    /\ Len(text) = MaxLen
    /\ text[1] \in {" ", "\t"}
    /\ Len(norm1) = 3
    /\ HasInk(norm1)
    /\ norm1[2] = "\n"

(* C7: the normalized text has no line that is empty or made of spaces    *)
(* and tabs only, wherever it stood in the input, an unterminated last     *)
(* line included.                                                          *)
C7_NoBlankLine ==
    normpc # "input" =>
        \A i \in 1..Len(Lines(norm1)) : ~IsBlankLine(Lines(norm1)[i])

(* C8: the normalized text is empty or begins with a character that is    *)
(* not whitespace.                                                         *)
C8_NoLeadingBlank ==
    normpc # "input" =>
        (norm1 = <<>> \/ norm1[1] \notin SpaceChars)

(* a text that starts with blank lines and an indented first line, and    *)
(* whose normal form is not empty                                          *)
C8_Witness ==
    /\ normpc = "normalized"
    /\ Len(text) >= 4
    /\ text[1] = "\n"
    /\ text[2] \in {" ", "\t"}
    /\ norm1 # <<>>

(* C10 as stated: every line with a printing character is found in the    *)
(* normalized text character for character, in the same order, none        *)
(* joined or split.                                                        *)
C10_LinesUntouched ==
    normpc # "input" => InkLines(norm1) = InkLines(text)

(* what the pattern and lstrip leave of the lines with a printing          *)
(* character: a line ended by a newline loses the spaces and tabs at its   *)
(* end, the first line loses its leading whitespace                        *)
RStripBlanks(l) ==
    LET keep == {i \in 1..Len(l) : l[i] \notin {" ", "\t"}}
    IN  IF keep = {} THEN <<>>
        ELSE SubSeq(l, 1, CHOOSE i \in keep : \A j \in keep : j <= i)

LStripSpace(l) ==
    LET keep == {i \in 1..Len(l) : l[i] \notin SpaceChars}
    IN  IF keep = {} THEN <<>>
        ELSE SubSeq(l, CHOOSE i \in keep : \A j \in keep : i <= j, Len(l))

ExpectedInkLines(s) ==
    LET p    == Split(s)
        idx  == SelectSeq([k \in 1..Len(p) |-> k], LAMBDA k : HasInk(p[k]))
        cut(k) == IF k < Len(p) THEN RStripBlanks(p[k]) ELSE p[k]
    IN  [j \in 1..Len(idx) |-> IF j = 1 THEN LStripSpace(cut(idx[j])) ELSE cut(idx[j])]

(* C10 (amended): the lines with a printing character are found in the    *)
(* normalized text in the same order, none joined or split, and identical  *)
(* except that a line ended by a newline loses the spaces and tabs at its  *)
(* end and the first such line loses its leading whitespace.               *)
C10_LinesKept ==
    normpc # "input" => InkLines(norm1) = ExpectedInkLines(text)

(* two indented lines with trailing blanks, the second unterminated *)
C10_Witness ==
    /\ normpc = "normalized"
    /\ Len(InkLines(text)) = 2
    /\ InkLines(text)[1] # InkLines(norm1)[1]
    /\ InkLines(text)[2] = InkLines(norm1)[2]
    /\ InkLines(text)[2][1] \in {" ", "\t"}

(***************************************************************************)
(* main().  The parser (html.HTMLParser) and the formatter                 *)
(* (groff.Formatter) are collaborators: whether a call raises, which       *)
(* nodes a line adds to p.data and which text the formatter emits are      *)
(* drawn from small sets.                                                  *)
(***************************************************************************)
MaxLines == 3

infile == "in.html"

LineTexts == {"l1\n", "l2\n"}

ParsedNodes == { Str("A"),
                 Tuple("div", << <<"class", "toc">> >>, List(<<Str("A")>>)),
                 Tuple("p", <<>>, List(<<Str("B")>>)) }

ErrOffsets == {0, 7}

FormatterOutputs == { <<>>,
                      <<"\n", " ", "x", " ", "\n", "\n", "y", "\n">>,
                      <<"x", "\n", "\t", "\n", " ", "y">> }

Init ==
    /\ content = None /\ fixed1 = None /\ fixed2 = None /\ fixpc = "idle"
    /\ text = <<>> /\ norm1 = <<>> /\ norm2 = <<>> /\ normpc = "idle"
    /\ pc = "open_in"
    /\ lines \in UNION {[1..k -> LineTexts] : k \in 0..MaxLines}
    /\ nLine = 0 /\ fedCalls = <<>> /\ data = <<>>
    /\ perr = NoError /\ stderr = <<>> /\ exitStatus = -1
    /\ inf = "unopened" /\ infOpens = 0 /\ outf = "unopened" /\ outfOpens = 0
    /\ written = <<>> /\ sf = <<>> /\ sOut = <<>> /\ ppArg = None
    /\ failure = "none" /\ stages = {}

(* the loop is left without leaving the program *)
SysExit_break(status) ==
    /\ pc' = "close_parser"
    /\ nLine' = Len(lines)
    /\ exitStatus' = exitStatus

(* sys.exit(1) *)
SysExit(status) ==
    /\ pc' = "exited"
    /\ nLine' = nLine
    /\ exitStatus' = status

(* Exceptions.  SystemExit carries the exit status; raised with a message  *)
(* instead (msg), the status is 1.                                         *)
IOError == [type |-> "IOError", code |-> 1, msg |-> FALSE]

OtherException == [type |-> "Exception", code |-> 1, msg |-> FALSE]

KeyboardInterrupt == [type |-> "KeyboardInterrupt", code |-> 1, msg |-> FALSE]

SystemExits == { [type |-> "SystemExit", code |-> 0, msg |-> FALSE],
                 [type |-> "SystemExit", code |-> 3, msg |-> FALSE],
                 [type |-> "SystemExit", code |-> 1, msg |-> TRUE] }

(* what `except Exception` does not catch *)
NotExceptions == {KeyboardInterrupt} \cup SystemExits

(* what a call outside the try statement can let through *)
AnyExceptions == {OtherException} \cup NotExceptions

(* an exception no handler of main() catches.  SystemExit ends the process *)
(* with the status it carries and no traceback (its message, if it has     *)
(* one, is printed); for any other exception the interpreter prints the    *)
(* traceback and the process ends with status 1                            *)
Uncaught(stage, exc) ==
    /\ failure' = stage
    /\ exitStatus' = exc.code
    /\ IF exc.type = "SystemExit"
       THEN /\ pc' = "exited"
            /\ stderr' = IF exc.msg THEN Append(stderr, [kind |-> "exitmsg", exc |-> stage])
                                    ELSE stderr
       ELSE /\ pc' = "crashed"
            /\ stderr' = Append(stderr, [kind |-> "traceback", exc |-> stage])

(* enumerate's index where the line number is wanted *)
DiagLineNo_index(idx) == idx

(* n + 1 *)
DiagLineNo(idx) == idx + 1

(* '%s:%d:%d: Parse error: %s\n' % (infile, err.lineno, err.offset, err.msg) *)
ParseDiag(err) ==
    [kind |-> "parse", file |-> infile, line |-> err.lineno, col |-> err.offset]

(* '%s:%d:0: Error (%s): %s\n' % (infile, n + 1, repr(err), line) *)
ErrorDiag(idx, line) ==
    [kind |-> "error", file |-> infile, line |-> DiagLineNo(idx), col |-> 0, text |-> line]

(* inf = file(infile) *)
OpenInput ==
    /\ pc = "open_in"
    /\ inf' = "open"
    /\ infOpens' = infOpens + 1
    /\ pc' = "feed"
    /\ UNCHANGED <<lines, nLine, fedCalls, data, perr, stderr, exitStatus, outf, outfOpens,
                   written, sf, sOut, ppArg, failure, stages, fixvars, normvars>>

(* file(infile) raises IOError *)
OpenInputFails ==
    /\ pc = "open_in"
    /\ Uncaught("open_in", IOError)
    /\ UNCHANGED <<lines, nLine, fedCalls, data, perr, inf, infOpens, outf, outfOpens,
                   written, sf, sOut, ppArg, stages, fixvars, normvars>>

(* p.feed(line) returns *)
FeedLine ==
    /\ pc = "feed"
    /\ nLine < Len(lines)
    /\ fedCalls' = Append(fedCalls, lines[nLine + 1])
    /\ \E nodes \in {<<>>} \cup {<<nd>> : nd \in ParsedNodes} : data' = data \o nodes
    /\ nLine' = nLine + 1
    /\ UNCHANGED <<pc, lines, perr, stderr, exitStatus, inf, infOpens, outf, outfOpens,
                   written, sf, sOut, ppArg, failure, stages, fixvars, normvars>>

(* p.feed(line) raises HTMLParseError *)
FeedLineParseError ==
    /\ pc = "feed"
    /\ nLine < Len(lines)
    /\ fedCalls' = Append(fedCalls, lines[nLine + 1])
    /\ \E lineno \in 1..MaxLines, offset \in ErrOffsets :
          /\ perr' = [lineno |-> lineno, offset |-> offset]
          /\ stderr' = Append(stderr, ParseDiag(perr'))
    /\ failure' = "parse"
    /\ SysExit(1)
    /\ UNCHANGED <<lines, data, inf, infOpens, outf, outfOpens,
                   written, sf, sOut, ppArg, stages, fixvars, normvars>>

(* p.feed(line) raises any other exception *)
FeedLineException ==
    /\ pc = "feed"
    /\ nLine < Len(lines)
    /\ fedCalls' = Append(fedCalls, lines[nLine + 1])
    /\ stderr' = Append(stderr, ErrorDiag(nLine, lines[nLine + 1]))
    /\ failure' = "error"
    /\ SysExit(1)
    /\ UNCHANGED <<lines, data, perr, inf, infOpens, outf, outfOpens,
                   written, sf, sOut, ppArg, stages, fixvars, normvars>>

(* p.feed(line) raises an exception that is no Exception                   *)
(* (KeyboardInterrupt, SystemExit): neither handler catches it             *)
FeedLineUncaught ==
    /\ pc = "feed"
    /\ nLine < Len(lines)
    /\ fedCalls' = Append(fedCalls, lines[nLine + 1])
    /\ \E exc \in NotExceptions : Uncaught("feed", exc)
    /\ UNCHANGED <<lines, nLine, data, perr, inf, infOpens, outf, outfOpens,
                   written, sf, sOut, ppArg, stages, fixvars, normvars>>

(* reading the next line raises IOError: the for statement is outside the  *)
(* try statement                                                           *)
ReadLineFails ==
    /\ pc = "feed"
    /\ Uncaught("read", IOError)
    /\ UNCHANGED <<lines, nLine, fedCalls, data, perr, inf, infOpens, outf, outfOpens,
                   written, sf, sOut, ppArg, stages, fixvars, normvars>>

(* the for loop ends *)
EndOfInput ==
    /\ pc = "feed"
    /\ nLine = Len(lines)
    /\ pc' = "close_parser"
    /\ stages' = stages \cup {"fed"}
    /\ UNCHANGED <<lines, nLine, fedCalls, data, perr, stderr, exitStatus, inf, infOpens,
                   outf, outfOpens, written, sf, sOut, ppArg, failure, fixvars, normvars>>

(* p.close() returns *)
CloseParser ==
    /\ pc = "close_parser"
    /\ pc' = "close_in"
    /\ stages' = stages \cup {"parser_closed"}
    /\ UNCHANGED <<lines, nLine, fedCalls, data, perr, stderr, exitStatus, inf, infOpens,
                   outf, outfOpens, written, sf, sOut, ppArg, failure, fixvars, normvars>>

(* p.close() raises: the call is outside the try statement *)
CloseParserRaises ==
    /\ pc = "close_parser"
    /\ \E exc \in AnyExceptions : Uncaught("close", exc)
    /\ UNCHANGED <<lines, nLine, fedCalls, data, perr, inf, infOpens, outf, outfOpens,
                   written, sf, sOut, ppArg, stages, fixvars, normvars>>

(* inf.close() *)
CloseInput ==
    /\ pc = "close_in"
    /\ inf' = "closed"
    /\ pc' = "generate"
    /\ UNCHANGED <<lines, nLine, fedCalls, data, perr, stderr, exitStatus, infOpens,
                   outf, outfOpens, written, sf, sOut, ppArg, failure, stages,
                   fixvars, normvars>>

(* sf = StringIO(); f = Formatter(infile, sf); f.pp(fix(p.data));          *)
(* s = sf.getvalue(); sf.close()                                           *)
GenerateGroff ==
    /\ pc = "generate"
    /\ ppArg' = fix(List(data))
    /\ \E out \in FormatterOutputs : sf' = out /\ sOut' = out
    /\ pc' = "strip"
    /\ stages' = stages \cup {"formatted"}
    /\ UNCHANGED <<lines, nLine, fedCalls, data, perr, stderr, exitStatus, inf, infOpens,
                   outf, outfOpens, written, failure, fixvars, normvars>>

(* f.pp raises *)
GenerateGroffRaises ==
    /\ pc = "generate"
    /\ ppArg' = fix(List(data))
    /\ \E exc \in AnyExceptions : Uncaught("format", exc)
    /\ UNCHANGED <<lines, nLine, fedCalls, data, perr, inf, infOpens, outf, outfOpens,
                   written, sf, sOut, stages, fixvars, normvars>>

(* s = blank_re.sub('\n', s); s = s.lstrip() *)
StripWhitespace ==
    /\ pc = "strip"
    /\ sOut' = lstrip(BlankReSub(sOut))
    /\ pc' = "open_out"
    /\ stages' = stages \cup {"normalized"}
    /\ UNCHANGED <<lines, nLine, fedCalls, data, perr, stderr, exitStatus, inf, infOpens,
                   outf, outfOpens, written, sf, ppArg, failure, fixvars, normvars>>

(* outf = file(sys.argv[2], 'w') *)
OpenOutput ==
    /\ pc = "open_out"
    /\ outf' = "open"
    /\ outfOpens' = outfOpens + 1
    /\ pc' = "write"
    /\ UNCHANGED <<lines, nLine, fedCalls, data, perr, stderr, exitStatus, inf, infOpens,
                   written, sf, sOut, ppArg, failure, stages, fixvars, normvars>>

(* file(sys.argv[2], 'w') raises IOError *)
OpenOutputFails ==
    /\ pc = "open_out"
    /\ Uncaught("open_out", IOError)
    /\ UNCHANGED <<lines, nLine, fedCalls, data, perr, inf, infOpens, outf, outfOpens,
                   written, sf, sOut, ppArg, stages, fixvars, normvars>>

(* outf.write(s) *)
WriteOutput ==
    /\ pc = "write"
    /\ written' = Append(written, sOut)
    /\ pc' = "close_out"
    /\ UNCHANGED <<lines, nLine, fedCalls, data, perr, stderr, exitStatus, inf, infOpens,
                   outf, outfOpens, sf, sOut, ppArg, failure, stages, fixvars, normvars>>

(* outf.write(s) raises IOError *)
WriteOutputFails ==
    /\ pc = "write"
    /\ Uncaught("write", IOError)
    /\ UNCHANGED <<lines, nLine, fedCalls, data, perr, inf, infOpens, outf, outfOpens,
                   written, sf, sOut, ppArg, stages, fixvars, normvars>>

(* outf.close(); main() returns and the process ends with status 0 *)
CloseOutput ==
    /\ pc = "close_out"
    /\ outf' = "closed"
    /\ pc' = "done"
    /\ exitStatus' = 0
    /\ UNCHANGED <<lines, nLine, fedCalls, data, perr, stderr, inf, infOpens,
                   outfOpens, written, sf, sOut, ppArg, failure, stages, fixvars, normvars>>

(* outf.close() raises IOError when the buffered text cannot be written;   *)
(* the file object is closed all the same                                  *)
CloseOutputFails ==
    /\ pc = "close_out"
    /\ outf' = "closed"
    /\ Uncaught("close_out", IOError)
    /\ UNCHANGED <<lines, nLine, fedCalls, data, perr, inf, infOpens,
                   outfOpens, written, sf, sOut, ppArg, stages, fixvars, normvars>>

Next ==
    \/ OpenInput \/ OpenInputFails
    \/ FeedLine \/ FeedLineParseError \/ FeedLineException \/ FeedLineUncaught
    \/ ReadLineFails \/ EndOfInput
    \/ CloseParser \/ CloseParserRaises
    \/ CloseInput
    \/ GenerateGroff \/ GenerateGroffRaises
    \/ StripWhitespace
    \/ OpenOutput \/ OpenOutputFails
    \/ WriteOutput \/ WriteOutputFails
    \/ CloseOutput \/ CloseOutputFails

Spec == Init /\ [][Next]_vars

Terminated == pc \in {"done", "exited", "crashed"}

(* C3: the destination file is opened and written only after every line   *)
(* was fed, the parser closed, and the text formatted and normalized; a    *)
(* run in which parsing or formatting failed never opens or writes it; a   *)
(* successful run writes it exactly once, with the normalized text.        *)
C3_WriteLast ==
    /\ (outfOpens > 0 \/ written # <<>>) =>
          /\ fedCalls = lines
          /\ stages = {"fed", "parser_closed", "formatted", "normalized"}
          /\ failure \notin {"read", "parse", "error", "feed", "close", "format"}
    /\ failure \in {"read", "parse", "error", "feed", "close", "format"} =>
          (outfOpens = 0 /\ outf = "unopened" /\ written = <<>>)
    /\ pc = "done" => written = <<lstrip(BlankReSub(sf))>>

(* a successful run over several lines whose text the normalizer changed *)
C3_Witness ==
    /\ pc = "done"
    /\ Len(lines) >= 2
    /\ written # <<sf>>
    /\ written[1] # <<>>

(* C4: every parse failure, in feed or in close, makes main write exactly  *)
(* one diagnostic naming the input file and a line number and exit with    *)
(* status 1; a run without failure exits 0 with an empty error stream.     *)
C4_OneDiagnostic ==
    /\ (Terminated /\ failure \in {"parse", "error", "close"}) =>
          /\ exitStatus = 1
          /\ Len(stderr) = 1
          /\ stderr[1].kind \in {"parse", "error"}
          /\ stderr[1].file = infile
          /\ stderr[1].line >= 1
    /\ (Terminated /\ failure = "none") => (exitStatus = 0 /\ stderr = <<>>)

(* C5: each file is opened at most once, and every file that was opened   *)
(* has been closed when the run ends, however it ends.                     *)
C5_FilesClosed ==
    /\ infOpens <= 1
    /\ outfOpens <= 1
    /\ Terminated =>
          /\ (infOpens > 0 => inf = "closed")
          /\ (outfOpens > 0 => outf = "closed")

(* C9 as stated: lines are fed one at a time in file order, each at most   *)
(* once; any exception other than a parse error at the k-th line is        *)
(* reported with line number k and that line's text, a parse error with    *)
(* the parser's line and column; after either no later line is fed and     *)
(* filtering, formatting and writing never start.                          *)
C9_FeedOrder ==
    /\ Len(fedCalls) <= Len(lines)
    /\ fedCalls = SubSeq(lines, 1, Len(fedCalls))
    /\ failure \in {"error", "feed"} =>
          /\ stderr = <<[kind |-> "error", file |-> infile, line |-> Len(fedCalls),
                         col |-> 0, text |-> lines[Len(fedCalls)]]>>
    /\ failure = "parse" =>
          /\ stderr = <<[kind |-> "parse", file |-> infile, line |-> perr.lineno,
                         col |-> perr.offset]>>
    /\ failure \in {"error", "parse", "feed"} =>
          /\ Terminated
          /\ exitStatus = 1
          /\ stages = {}
          /\ ppArg = None /\ sf = <<>> /\ outfOpens = 0 /\ written = <<>>

(* C9 (amended): lines are fed one at a time in file order, each at most   *)
(* once; an exception derived from Exception, other than a parse error,    *)
(* at the k-th line is reported with line number k and that line's text,   *)
(* a parse error with the parser's line and column, and both end the run   *)
(* with status 1; an exception not derived from Exception is not caught    *)
(* and main writes no diagnostic; after any of them the run is over: no    *)
(* later line is fed and filtering, formatting and writing never start.    *)
C9_FeedOrderCaught ==
    /\ Len(fedCalls) <= Len(lines)
    /\ fedCalls = SubSeq(lines, 1, Len(fedCalls))
    /\ failure = "error" =>
          /\ stderr = <<[kind |-> "error", file |-> infile, line |-> Len(fedCalls),
                         col |-> 0, text |-> lines[Len(fedCalls)]]>>
          /\ pc = "exited" /\ exitStatus = 1
    /\ failure = "parse" =>
          /\ stderr = <<[kind |-> "parse", file |-> infile, line |-> perr.lineno,
                         col |-> perr.offset]>>
          /\ pc = "exited" /\ exitStatus = 1
    /\ failure = "feed" =>
          /\ \A i \in 1..Len(stderr) : stderr[i].kind \notin {"error", "parse"}
    /\ failure \in {"error", "parse", "feed"} =>
          /\ Terminated
          /\ Len(fedCalls) = nLine + 1
          /\ stages = {}
          /\ ppArg = None /\ sf = <<>> /\ outfOpens = 0 /\ written = <<>>

(* the second of three lines raised an exception that is no parse error *)
C9_Witness ==
    /\ failure = "error"
    /\ Len(lines) = 3
    /\ Len(fedCalls) = 2
    /\ lines[1] # lines[2]
    /\ stderr[1].line = 2

(* a parse error at a later line, reported at the parser's own position *)
C9_WitnessParse ==
    /\ failure = "parse"
    /\ Len(fedCalls) = 3
    /\ perr.lineno = 1
    /\ stderr[1].col = 7

====
